---- MODULE Spec2Model ----
(***************************************************************************)
(* Model of airpod_alfred_connector (src/bluetooth/mod.rs, src/main.rs).   *)
(*                                                                         *)
(* Strings are sequences of one-character strings, so that to_lowercase,   *)
(* contains, split and the record regex are computed character by          *)
(* character.                                                              *)
(*                                                                         *)
(* Three specifications share the variables:                               *)
(*   SpecParse  BlueutilClient::get_device_list over the raw process       *)
(*              output (split, filter, DeviceInfo::from_raw_str);          *)
(*   SpecList   BluetoothClient::get_device_list / get_device_info /       *)
(*              is_device_connected over a Client that yields a list;      *)
(*   Spec       the command line tool: connect, disconnect and toggle      *)
(*              invocations against the gateway.                           *)
(***************************************************************************)
EXTENDS Integers, Sequences, FiniteSets, Bags, TLC

VARIABLES
    stdout,     \* bytes `blueutil --paired` wrote, as a sequence of characters
    listed,     \* outcome of BlueutilClient::get_device_list on stdout
    devices,    \* the Vec<DeviceInfo> the Client trait's get_device_list yields
    call,       \* the last BluetoothClient call made and what it returned
    pc,         \* per invocation of the tool: where main() is
    cmd,        \* per invocation: the parsed Commands value
    read,       \* per invocation: `device` of toggle_connected_status
    outcome,    \* per invocation: what main() printed, or the panic
    trace       \* per invocation: the Client calls made so far, in order

vars == <<stdout, listed, devices, call, pc, cmd, read, outcome, trace>>

-----------------------------------------------------------------------------
(* Characters and strings *)

UpperChars == <<"A", "B", "C", "D", "E", "F", "G", "H", "I", "J", "K", "L", "M", "N", "O", "P", "Q", "R", "S", "T", "U", "V", "W", "X", "Y", "Z">>
LowerChars == <<"a", "b", "c", "d", "e", "f", "g", "h", "i", "j", "k", "l", "m", "n", "o", "p", "q", "r", "s", "t", "u", "v", "w", "x", "y", "z">>
DigitChars == <<"0", "1", "2", "3", "4", "5", "6", "7", "8", "9">>

Range(s) == {s[i] : i \in DOMAIN s}

\* char::to_lowercase on the characters of the model's alphabet
ToLowerChar(c) ==
    IF \E i \in DOMAIN UpperChars : UpperChars[i] = c
    THEN LowerChars[CHOOSE i \in DOMAIN UpperChars : UpperChars[i] = c]
    ELSE c

\* str::to_lowercase
to_lowercase(s) == [i \in 1..Len(s) |-> ToLowerChar(s[i])]

\* str::contains(&str): pat occurs in s as a contiguous substring
contains(s, pat) ==
    \E i \in 0..(Len(s) - Len(pat)) : SubSeq(s, i + 1, i + Len(pat)) = pat

\* Vec<String>::contains: exact string equality with some element
vec_contains(v, s) == \E i \in DOMAIN v : v[i] = s

-----------------------------------------------------------------------------
(* DeviceInfo::from_raw_str *)

AddressLen == 17
ADDRESS_PREFIX == <<"a", "d", "d", "r", "e", "s", "s", ":", " ">>
NAME_PREFIX == <<"n", "a", "m", "e", ":", " ", "\"">>
NOT_CONNECTED == <<"n", "o", "t", " ", "c", "o", "n", "n", "e", "c", "t", "e", "d">>
QUOTE == "\""
NEWLINE == "\n"

\* the character class [a-zA-Z0-9_-]
AddressClass ==
    Range(LowerChars) \cup Range(UpperChars) \cup Range(DigitChars) \cup {"_", "-"}

\* index of the first character after the captured address, the ','
AddressEnd == Len(ADDRESS_PREFIX) + AddressLen + 1

\* `name: "([^"]*)"` matches at position p: the prefix is there and a closing
\* quote follows it
NameAt(data, p) ==
    /\ p + Len(NAME_PREFIX) - 1 <= Len(data)
    /\ SubSeq(data, p, p + Len(NAME_PREFIX) - 1) = NAME_PREFIX
    /\ \E q \in (p + Len(NAME_PREFIX))..Len(data) : data[q] = QUOTE

\* `,.*` reaches position p: '.' matches anything but a line feed
DotStarTo(data, p) ==
    \A i \in (AddressEnd + 1)..(p - 1) : data[i] # NEWLINE

\* the positions where the name group of the regex can start
NamePositions(data) ==
    {p \in (AddressEnd + 1)..Len(data) : DotStarTo(data, p) /\ NameAt(data, p)}

\* RE.is_match(data)
RE_is_match(data) ==
    /\ Len(data) >= AddressEnd
    /\ SubSeq(data, 1, Len(ADDRESS_PREFIX)) = ADDRESS_PREFIX
    /\ \A i \in (Len(ADDRESS_PREFIX) + 1)..(AddressEnd - 1) : data[i] \in AddressClass
    /\ data[AddressEnd] = ","
    /\ NamePositions(data) # {}

\* the greedy `.*` gives up as little as it must: the last name field wins
GreedyNamePosition(data) ==
    CHOOSE p \in NamePositions(data) : \A r \in NamePositions(data) : r <= p

\* capture group 2: from after the opening quote up to the next quote
CaptureName(data) ==
    LET p == GreedyNamePosition(data)
        from == p + Len(NAME_PREFIX)
        q == CHOOSE q \in from..Len(data) :
                 /\ data[q] = QUOTE
                 /\ \A r \in from..(q - 1) : data[r] # QUOTE
    IN SubSeq(data, from, q - 1)

\* capture group 1
CaptureAddress(data) == SubSeq(data, Len(ADDRESS_PREFIX) + 1, AddressEnd - 1)

\* a faulty variant of LineConnected: only the field after the address is looked at
FieldConnected(data) ==
    ~(SubSeq(data, AddressEnd + 2, AddressEnd + 1 + Len(NOT_CONNECTED)) = NOT_CONNECTED)

\* let connected: bool = !data.contains("not connected")
LineConnected(data) == ~contains(data, NOT_CONNECTED)

PANIC == "panic"
Panicked == [panic |-> TRUE]

\* DeviceInfo::from_raw_str: the record, or Panicked when assert!(RE.is_match)
\* fails
from_raw_str(data) ==
    IF ~RE_is_match(data)
    THEN Panicked
    ELSE [name |-> CaptureName(data),
          address |-> CaptureAddress(data),
          connected |-> LineConnected(data)]

-----------------------------------------------------------------------------
(* BlueutilClient::get_device_list *)

\* position of the first line feed of s, or 0
FirstNewline(s) ==
    IF \E i \in DOMAIN s : s[i] = NEWLINE
    THEN CHOOSE i \in DOMAIN s : s[i] = NEWLINE /\ \A j \in 1..(i - 1) : s[j] # NEWLINE
    ELSE 0

\* str::split("\n"): the pieces between line feeds, empty pieces included
RECURSIVE split(_)
split(s) ==
    LET i == FirstNewline(s)
    IN IF i = 0 THEN <<s>>
       ELSE <<SubSeq(s, 1, i - 1)>> \o split(SubSeq(s, i + 1, Len(s)))

\* .filter(|x| x.len() > 0)
NonEmptyLines(s) == SelectSeq(split(s), LAMBDA x : Len(x) > 0)

\* a faulty variant of CollectRecords: a line that does not match is skipped
CollectSkipping(lines) ==
    LET good == SelectSeq(lines, RE_is_match)
    IN [status |-> "ok", devices |-> [i \in 1..Len(good) |-> from_raw_str(good[i])]]

\* .map(|x| DeviceInfo::from_raw_str(x)).collect(): a panic in the closure
\* unwinds through collect, and no Vec is returned
CollectRecords(lines) ==
    IF \E i \in DOMAIN lines : from_raw_str(lines[i]) = Panicked
    THEN [status |-> PANIC, devices |-> <<>>]
    ELSE [status |-> "ok", devices |-> [i \in 1..Len(lines) |-> from_raw_str(lines[i])]]

\* BlueutilClient::get_device_list on the captured output
parse_paired(out) == CollectRecords(NonEmptyLines(out))

-----------------------------------------------------------------------------
(* The raw outputs the parser is run on *)

MaxLines == 2

Addr1 == <<"5", "c", "-", "2", "e", "-", "f", "g", "-", "d", "a", "-", "a", "3", "-", "4", "3">>
Addr2 == <<"8", "0", "-", "3", "B", "-", "5", "C", "-", "C", "2", "-", "B", "1", "-", "7", "F">>
MidNotConnected == <<",", " ", "n", "o", "t", " ", "c", "o", "n", "n", "e", "c", "t", "e", "d", ",", " ", "p", "a", "i", "r", "e", "d", ",", " ">>
MidConnected == <<",", " ", "c", "o", "n", "n", "e", "c", "t", "e", "d", " ", "(", "m", "a", "s", "t", "e", "r", ",", " ", "0", " ", "d", "B", "m", ")", ",", " ", "p", "a", "i", "r", "e", "d", ",", " ">>
NameAirPods == <<"A", "i", "r", "P", "o", "d", "s", " ", "P", "r", "o">>
TailDate == <<",", " ", "r", "e", "c", "e", "n", "t", " ", "a", "c", "c", "e", "s", "s", " ", "d", "a", "t", "e", ":", " ", "2", "0", "2", "2">>
TailSecondName == <<",", " ", "n", "a", "m", "e", ":", " ", "\"", "x", "\"">>
TailOpenName == <<",", " ", "n", "a", "m", "e", ":", " ", "\"", "y">>
TailMarker == <<",", " ", "n", "o", "t", " ", "c", "o", "n", "n", "e", "c", "t", "e", "d">>
ShortAddr == <<"5", "c", "-", "2", "e", "-", "f", "g", "-", "d", "a", "-", "a", "3", "-", "4">>
ColonAddr == <<"5", "c", ":", "2", "e", ":", "f", "g", ":", "d", "a", ":", "a", "3", ":", "4", "3">>

\* a record line as blueutil writes it
RecordLine(addr, mid, name, tail) ==
    ADDRESS_PREFIX \o addr \o mid \o NAME_PREFIX \o name \o <<QUOTE>> \o tail

WellFormedLines ==
    { RecordLine(Addr1, MidNotConnected, NameAirPods, TailDate),
      RecordLine(Addr2, MidConnected, NameAirPods, TailDate),
      RecordLine(Addr2, MidNotConnected, <<>>, <<>>),
      RecordLine(Addr1, MidConnected, NOT_CONNECTED, <<>>),
      RecordLine(Addr1, MidConnected, NameAirPods, TailMarker),
      RecordLine(Addr1, MidConnected, NameAirPods, TailSecondName),
      RecordLine(Addr1, MidNotConnected, <<>>, TailSecondName),
      RecordLine(Addr1, MidConnected, NameAirPods, TailOpenName) }

MalformedLines ==
    { ADDRESS_PREFIX \o Addr1,
      ADDRESS_PREFIX \o Addr1 \o MidConnected,
      ADDRESS_PREFIX \o Addr1 \o MidConnected \o NAME_PREFIX \o NameAirPods,
      RecordLine(ShortAddr, MidConnected, NameAirPods, <<>>),
      RecordLine(ColonAddr, MidNotConnected, NameAirPods, <<>>),
      <<" ">> \o RecordLine(Addr1, MidConnected, NameAirPods, <<>>) }

LinePool == WellFormedLines \cup MalformedLines \cup {<<>>}

RECURSIVE JoinLines(_)
JoinLines(ls) ==
    IF ls = <<>> THEN <<>> ELSE ls[1] \o <<NEWLINE>> \o JoinLines(Tail(ls))

SeqsUpTo(S, n) == UNION {[1..k -> S] : k \in 0..n}

NOT_RUN == [status |-> "not run", devices |-> <<>>]

StdoutPool == {JoinLines(ls) : ls \in SeqsUpTo(LinePool, MaxLines)}

-----------------------------------------------------------------------------
(* Option and Result *)

NONE == [some |-> FALSE]
Some(x) == [some |-> TRUE, value |-> x]
Ok(x) == [ok |-> TRUE, value |-> x]
Err(e) == [ok |-> FALSE, error |-> e]

\* BluetoothClientError::new(&format!("Could not find device id : '{}'", address))
NotFoundError(address) == [kind |-> "Could not find device id", address |-> address]

-----------------------------------------------------------------------------
(* slice::sort_by *)

\* A comparison closure is passed to sort_by as the function from pairs of
\* elements to "the closure returns Ordering::Less".

\* one insertion step of the stable sort: x goes after the last element it is
\* not less than
InsertSorted(t, x, less) ==
    LET keep == {i \in DOMAIN t : ~less[<<x, t[i]>>]}
        j == IF keep = {} THEN 0 ELSE CHOOSE i \in keep : \A k \in keep : k <= i
    IN SubSeq(t, 1, j) \o <<x>> \o SubSeq(t, j + 1, Len(t))

\* slice::sort_by(compare): stable
sort_by(s, less) ==
    LET F[k \in 0..Len(s)] ==
            IF k = 0 THEN <<>> ELSE InsertSorted(F[k - 1], s[k], less)
    IN F[Len(s)]

-----------------------------------------------------------------------------
(* BluetoothClient *)

AllDevices == [kind |-> "AllDevices"]
SpecificAddresses(addresses) == [kind |-> "SpecificAddresses", addresses |-> addresses]
RegexFilter(value) == [kind |-> "Regex", value |-> value]

\* DeviceListOptions::new
DeviceListOptions(filters, previous_address) ==
    [filters |-> filters, previous_address |-> previous_address]

\* BluetoothClient::get_filtered_devices
get_filtered_devices(devs, filters) ==
    CASE filters.kind = "AllDevices" -> devs
      [] filters.kind = "SpecificAddresses" ->
            SelectSeq(devs, LAMBDA x : vec_contains(filters.addresses, to_lowercase(x.address)))
      [] filters.kind = "Regex" ->
            SelectSeq(devs, LAMBDA x : contains(to_lowercase(x.name), filters.value))

\* a faulty variant of connected_first: a.connected.cmp(&b.connected)
disconnected_first(a, b) == ~a.connected /\ b.connected

\* |a, b| b.connected.cmp(&a.connected) is Less: false < true
connected_first(a, b) == ~b.connected /\ a.connected

\* a faulty variant of previous_key: the hint is compared as given
previous_key_exact(a, previous_address) ==
    to_lowercase(a.address) # previous_address

\* |a| a.address.to_lowercase() != previous_address.to_lowercase()
previous_key(a, previous_address) ==
    to_lowercase(a.address) # to_lowercase(previous_address)

\* a faulty variant of move_previous_to_top: the hint keeps only its own record
keep_previous_only(devs, previous_address) ==
    IF previous_address.some
    THEN SelectSeq(devs, LAMBDA a : ~previous_key(a, previous_address.value))
    ELSE devs

\* if let Some(previous_address) = ... { devices.sort_by_key(...) }
move_previous_to_top(devs, previous_address) ==
    IF previous_address.some
    THEN sort_by(devs, [ab \in Range(devs) \X Range(devs) |->
                    ~previous_key(ab[1], previous_address.value)
                    /\ previous_key(ab[2], previous_address.value)])
    ELSE devs

\* devices.sort_by(|a, b| b.connected.cmp(&a.connected))
sort_connected_first(devs) ==
    sort_by(devs, [ab \in Range(devs) \X Range(devs) |-> connected_first(ab[1], ab[2])])

\* BluetoothClient::get_device_list, given what the Client's list call yields
get_device_list(devs, options) ==
    move_previous_to_top(
        sort_connected_first(get_filtered_devices(devs, options.filters)),
        options.previous_address)

\* a faulty variant of get_device_info: an absent device is taken to be a
\* disconnected one
get_device_info_or_default(devs, address) ==
    LET found == SelectSeq(devs, LAMBDA x : to_lowercase(x.address) = to_lowercase(address))
    IN IF Len(found) = 0
       THEN Ok([name |-> <<>>, address |-> address, connected |-> FALSE])
       ELSE Ok(found[1])

\* BluetoothClient::get_device_info
get_device_info(devs, address) ==
    LET filtered_device ==
            SelectSeq(get_device_list(devs,
                          DeviceListOptions(SpecificAddresses(<<address>>), NONE)),
                      LAMBDA x : to_lowercase(x.address) = to_lowercase(address))
    IN IF Len(filtered_device) = 0
       THEN Err(NotFoundError(address))
       ELSE Ok(filtered_device[1])

\* BluetoothClient::is_device_connected
is_device_connected(devs, address) ==
    LET device == get_device_info(devs, address)
    IN IF device.ok THEN Ok(device.value.connected) ELSE device

-----------------------------------------------------------------------------
(* The invocations of the tool *)

MaxProcs == 2
Procs == 1..MaxProcs

NO_CALL == [op |-> "none"]
NO_CMD == [kind |-> "none"]
NO_OUTCOME == [stream |-> "none"]
NO_DEVICE == [name |-> <<>>, address |-> <<>>, connected |-> FALSE]

IdleTool ==
    /\ pc = [p \in Procs |-> "start"]
    /\ cmd = [p \in Procs |-> NO_CMD]
    /\ read = [p \in Procs |-> NO_DEVICE]
    /\ outcome = [p \in Procs |-> NO_OUTCOME]
    /\ trace = [p \in Procs |-> <<>>]

toolVars == <<pc, cmd, read, outcome, trace>>

-----------------------------------------------------------------------------
(* SpecParse: the gateway's list operation on raw output *)

InitParse ==
    /\ stdout \in StdoutPool
    /\ listed = NOT_RUN
    /\ devices = <<>>
    /\ call = NO_CALL
    /\ IdleTool

\* BlueutilClient::get_device_list, once `blueutil --paired` has written stdout
BlueutilGetDeviceList ==
    /\ listed = NOT_RUN
    /\ listed' = parse_paired(stdout)
    /\ UNCHANGED <<stdout, devices, call, toolVars>>

NextParse == BlueutilGetDeviceList

SpecParse == InitParse /\ [][NextParse]_vars

-----------------------------------------------------------------------------
(* SpecList: the directory over a Client that yields `devices` *)

MaxDevices == 3
MaxAddresses == 1

NameAir == <<"A", "i", "r">>
NameMax == <<"m", "a", "x">>
AddrLowerA == <<"a", "1">>
AddrUpperA == <<"A", "1">>
AddrLowerB == <<"b", "2">>
AddrUpperB == <<"B", "2">>

\* the records a Client may yield: one address in lower case, one in upper case
DevicePool ==
    [name : {NameAir, NameMax}, address : {AddrLowerA, AddrUpperB}, connected : BOOLEAN]

\* the addresses callers pass: as a filter member, as a hint, as a device id
AddressArgs == {AddrLowerA, AddrUpperA, AddrLowerB}

PatternArgs == {<<"a", "i">>, <<"A", "i">>, <<"x">>, <<>>}

FilterPool ==
    {AllDevices}
    \cup {SpecificAddresses(a) : a \in SeqsUpTo(AddressArgs, MaxAddresses)}
    \cup {RegexFilter(v) : v \in PatternArgs}

HintPool == {NONE} \cup {Some(a) : a \in AddressArgs}

InitList ==
    /\ devices \in SeqsUpTo(DevicePool, MaxDevices)
    /\ call = NO_CALL
    /\ stdout = <<>>
    /\ listed = NOT_RUN
    /\ IdleTool

\* Each run of the tool makes one call on the directory (main.rs: one command
\* per process), so every call below starts from the state before any call.

\* BluetoothClient::get_device_list(options)
GetDeviceList ==
    \E filters \in FilterPool, previous_address \in HintPool :
        LET options == DeviceListOptions(filters, previous_address)
        IN /\ call = NO_CALL
           /\ call' = [op |-> "get_device_list",
                       options |-> options,
                       filtered |-> get_filtered_devices(devices, filters),
                       result |-> get_device_list(devices, options)]
           /\ UNCHANGED <<stdout, listed, devices, toolVars>>

\* BluetoothClient::get_device_info(address)
GetDeviceInfo ==
    \E address \in AddressArgs :
        /\ call = NO_CALL
        /\ call' = [op |-> "get_device_info",
                    address |-> address,
                    result |-> get_device_info(devices, address)]
        /\ UNCHANGED <<stdout, listed, devices, toolVars>>

\* BluetoothClient::is_device_connected(address)
IsDeviceConnected ==
    \E address \in AddressArgs :
        /\ call = NO_CALL
        /\ call' = [op |-> "is_device_connected",
                    address |-> address,
                    result |-> is_device_connected(devices, address)]
        /\ UNCHANGED <<stdout, listed, devices, toolVars>>

NextList == GetDeviceList \/ GetDeviceInfo \/ IsDeviceConnected

SpecList == InitList /\ [][NextList]_vars

-----------------------------------------------------------------------------
(* Properties of the directory *)

SameAddress(a, b) == to_lowercase(a) = to_lowercase(b)

\* the connected records of s in their order, then the disconnected ones in theirs
ConnectedThenDisconnected(s) ==
    SelectSeq(s, LAMBDA x : x.connected) \o SelectSeq(s, LAMBDA x : ~x.connected)

SeqToBag(s) == [x \in Range(s) |-> Cardinality({i \in DOMAIN s : s[i] = x})]

ListedWithoutHint ==
    call.op = "get_device_list" /\ ~call.options.previous_address.some

ListedWithHint ==
    call.op = "get_device_list" /\ call.options.previous_address.some

HintMatches(x) == SameAddress(x.address, call.options.previous_address.value)

\* C2: without a previous-address hint the result of get_device_list is the
\* filtered list with every connected record before every disconnected one,
\* each group in the order it had in the filtered list (a stable sort).
C2_ConnectedFirstStable ==
    ListedWithoutHint => call.result = ConnectedThenDisconnected(call.filtered)

\* a listing whose filtered list has two different disconnected records on
\* either side of a connected one
C2_Witness ==
    /\ ListedWithoutHint
    /\ Len(call.filtered) = 3
    /\ ~call.filtered[1].connected
    /\ call.filtered[2].connected
    /\ ~call.filtered[3].connected
    /\ call.filtered[1] # call.filtered[3]
    /\ call.result = <<call.filtered[2], call.filtered[1], call.filtered[3]>>

\* C3: when the hint equals, ignoring case, the address of a record that
\* survives the filter, the first record of the result matches the hint, and
\* the records that do not match keep the order of the connected-first list.
C3_HintFirstRestInOrder ==
    (ListedWithHint /\ \E i \in DOMAIN call.filtered : HintMatches(call.filtered[i]))
    => /\ Len(call.result) > 0
       /\ HintMatches(call.result[1])
       /\ SelectSeq(call.result, LAMBDA x : ~HintMatches(x))
            = SelectSeq(ConnectedThenDisconnected(call.filtered), LAMBDA x : ~HintMatches(x))

\* a disconnected record is moved in front of a connected one by a hint that
\* differs from its address in letter case
C3_Witness ==
    /\ ListedWithHint
    /\ Len(call.result) = 3
    /\ ~call.result[1].connected
    /\ call.result[2].connected
    /\ HintMatches(call.result[1])
    /\ call.result[1].address # call.options.previous_address.value
    /\ ~HintMatches(call.result[2])
    /\ ~HintMatches(call.result[3])

\* C10: with any hint the result of get_device_list holds the same records,
\* as often, as the result for the same list and filter without a hint; and
\* when no surviving record matches the hint the two results are equal.
C10_HintNeverFilters ==
    call.op = "get_device_list"
    => LET plain == get_device_list(devices, DeviceListOptions(call.options.filters, NONE))
       IN /\ SeqToBag(call.result) = SeqToBag(plain)
          /\ (call.options.previous_address.some
              /\ ~\E i \in DOMAIN call.filtered : HintMatches(call.filtered[i]))
             => call.result = plain

\* a hint reorders a list in which one record occurs twice
C10_Witness ==
    /\ ListedWithHint
    /\ call.result # get_device_list(devices, DeviceListOptions(call.options.filters, NONE))
    /\ \E i, j \in DOMAIN call.result : i # j /\ call.result[i] = call.result[j]
    /\ \E i \in DOMAIN call.result : ~HintMatches(call.result[i])

\* C4: the By-Addresses filter keeps exactly the records whose address equals
\* some member of the set ignoring case, in their original order.
C4_AddressFilterIgnoresCase ==
    (call.op = "get_device_list" /\ call.options.filters.kind = "SpecificAddresses")
    => call.filtered
         = SelectSeq(devices, LAMBDA x :
               \E i \in DOMAIN call.options.filters.addresses :
                   SameAddress(x.address, call.options.filters.addresses[i]))

\* C5: the By-Name-Pattern filter keeps exactly the records whose name
\* contains the pattern when both are compared ignoring case.
C5_NameFilterIgnoresCase ==
    (call.op = "get_device_list" /\ call.options.filters.kind = "Regex")
    => call.filtered
         = SelectSeq(devices, LAMBDA x :
               contains(to_lowercase(x.name), to_lowercase(call.options.filters.value)))

MatchingIndexes(address) ==
    {i \in DOMAIN devices : SameAddress(devices[i].address, address)}

\* C6: get_device_info fails with not-found when no listed record has the
\* requested address ignoring case, and returns the record when one has;
\* is_device_connected answers with that record's connected flag.
C6_LookupIgnoresCase ==
    /\ call.op = "get_device_info" =>
         /\ MatchingIndexes(call.address) = {} => call.result = Err(NotFoundError(call.address))
         /\ \A i \in MatchingIndexes(call.address) :
                MatchingIndexes(call.address) = {i} => call.result = Ok(devices[i])
    /\ call.op = "is_device_connected" =>
         /\ MatchingIndexes(call.address) = {} => call.result = Err(NotFoundError(call.address))
         /\ \A i \in MatchingIndexes(call.address) :
                MatchingIndexes(call.address) = {i} => call.result = Ok(devices[i].connected)

-----------------------------------------------------------------------------
(* Properties of the parser and of the gateway's list operation *)

\* s occurs in line starting at position p
OccursAt(line, s, p) ==
    p >= 1 /\ p + Len(s) - 1 <= Len(line) /\ SubSeq(line, p, p + Len(s) - 1) = s

\* a complete quoted name field starts at p
QuotedNameAt(line, p) ==
    \E n \in 0..Len(line) :
        /\ OccursAt(line, NAME_PREFIX, p)
        /\ p + Len(NAME_PREFIX) + n <= Len(line)
        /\ line[p + Len(NAME_PREFIX) + n] = QUOTE

\* rec is what the record format says of line: the address is the 17
\* characters after "address: ", the name is the quoted text of the last
\* complete name field, and connected is false exactly when "not connected"
\* occurs somewhere in the line
RecordOfLine(rec, line) ==
    /\ Len(rec.address) = AddressLen
    /\ OccursAt(line, ADDRESS_PREFIX \o rec.address \o <<",">>, 1)
    /\ \A i \in DOMAIN rec.name : rec.name[i] # QUOTE
    /\ \E p \in DOMAIN line :
          /\ OccursAt(line, NAME_PREFIX \o rec.name \o <<QUOTE>>, p)
          /\ \A r \in (p + 1)..Len(line) : ~QuotedNameAt(line, r)
    /\ rec.connected = ~(\E p \in DOMAIN line : OccursAt(line, NOT_CONNECTED, p))

\* C7: every line that matches the record format is parsed into the record
\* with the captured address and name, and with connected false if and only
\* if "not connected" occurs anywhere in the line.
C7_ParsedRecordOfLine ==
    listed.status = "ok"
    => LET lines == NonEmptyLines(stdout)
       IN /\ Len(listed.devices) = Len(lines)
          /\ \A i \in DOMAIN lines : RecordOfLine(listed.devices[i], lines[i])

\* a line whose state field reads "connected" and whose name is "not connected"
\* is parsed as a disconnected device of that name
C7_Witness ==
    /\ listed.status = "ok"
    /\ \E i \in DOMAIN listed.devices :
          /\ listed.devices[i].name = NOT_CONNECTED
          /\ ~listed.devices[i].connected
          /\ OccursAt(NonEmptyLines(stdout)[i], MidConnected, AddressEnd)

\* C8: when some non-empty line of the output lacks the address/name
\* structure, the list operation panics and returns no list, not even the
\* records of the well-formed lines.
C8_MalformedLineAborts ==
    (listed # NOT_RUN
     /\ \E i \in DOMAIN split(stdout) : split(stdout)[i] \in MalformedLines)
    => listed.status = PANIC /\ listed.devices = <<>>

\* a well-formed line followed by a malformed one: the operation panicked
C8_Witness ==
    /\ listed.status = PANIC
    /\ Len(split(stdout)) >= 2
    /\ split(stdout)[1] \in WellFormedLines
    /\ split(stdout)[2] \in MalformedLines

-----------------------------------------------------------------------------
(* Spec: runs of the tool against the paired devices *)

MaxPaired == 2

\* what the tool is started with as device_id
DeviceIds == {AddrLowerA, AddrLowerB, AddrUpperB}

\* the paired devices as the Client lists them; a paired device has one record
PairedPool == [name : {NameAir}, address : {AddrLowerA, AddrUpperB}, connected : BOOLEAN]

UniqueAddresses(devs) ==
    \A i, j \in DOMAIN devs : SameAddress(devs[i].address, devs[j].address) => i = j

\* Commands::Connect / Disconnect / Toggle { device_id }
Commands == [kind : {"connect", "disconnect", "toggle"}, device_id : DeviceIds]

\* one call on the Client trait
ListCall(launched, yielded) == [op |-> "list", launched |-> launched, yielded |-> yielded]
ConnectCall(address, launched) == [op |-> "connect", address |-> address, launched |-> launched]
DisconnectCall(address, launched) == [op |-> "disconnect", address |-> address, launched |-> launched]

\* what `blueutil --connect address` / `--disconnect address` does to the
\* device with that address
SetConnected(devs, address, value) ==
    [i \in DOMAIN devs |->
        IF SameAddress(devs[i].address, address)
        THEN [devs[i] EXCEPT !.connected = value]
        ELSE devs[i]]

\* a panic unwinds out of main: nothing is printed by the match arms
PanicOutcome == [stream |-> PANIC]
\* println!(...) after Ok, eprintln!("{}", err) after Err
Printed(text, returned) == [stream |-> "stdout", text |-> text, returned |-> returned]
ErrPrinted(err) == [stream |-> "stderr", text |-> err, returned |-> Err(err)]

Init ==
    /\ devices \in {d \in SeqsUpTo(PairedPool, MaxPaired) : UniqueAddresses(d)}
    /\ stdout = <<>>
    /\ listed = NOT_RUN
    /\ call = NO_CALL
    /\ IdleTool

\* main: Cli::parse() and the match on cli.command
ParseArgs(p) ==
    /\ pc[p] = "start"
    /\ \E c \in Commands :
          /\ cmd' = [cmd EXCEPT ![p] = c]
          /\ pc' = [pc EXCEPT ![p] = c.kind]
    /\ UNCHANGED <<stdout, listed, devices, call, read, outcome, trace>>

\* DefaultCommandRunner::run_command: .expect(..) panics when the process
\* cannot be launched
Panics(p, attempted) ==
    /\ pc' = [pc EXCEPT ![p] = "panicked"]
    /\ outcome' = [outcome EXCEPT ![p] = PanicOutcome]
    /\ trace' = [trace EXCEPT ![p] = Append(@, attempted)]
    /\ UNCHANGED <<stdout, listed, devices, call, cmd, read>>

\* Commands::Connect: client.connect_to_device(&device_id)
ConnectCmd(p) ==
    /\ pc[p] = "connect"
    /\ \E launched \in BOOLEAN :
          IF launched
          THEN /\ devices' = SetConnected(devices, cmd[p].device_id, TRUE)
               /\ trace' = [trace EXCEPT ![p] = Append(@, ConnectCall(cmd[p].device_id, TRUE))]
               /\ outcome' = [outcome EXCEPT ![p] = Printed("Connected to device", Ok(<<>>))]
               /\ pc' = [pc EXCEPT ![p] = "exit"]
               /\ UNCHANGED <<stdout, listed, call, cmd, read>>
          ELSE Panics(p, ConnectCall(cmd[p].device_id, FALSE))

\* Commands::Disconnect: client.disconnect_from_device(&device_id)
DisconnectCmd(p) ==
    /\ pc[p] = "disconnect"
    /\ \E launched \in BOOLEAN :
          IF launched
          THEN /\ devices' = SetConnected(devices, cmd[p].device_id, FALSE)
               /\ trace' = [trace EXCEPT ![p] = Append(@, DisconnectCall(cmd[p].device_id, TRUE))]
               /\ outcome' = [outcome EXCEPT ![p] = Printed("Disconnected from device", Ok(<<>>))]
               /\ pc' = [pc EXCEPT ![p] = "exit"]
               /\ UNCHANGED <<stdout, listed, call, cmd, read>>
          ELSE Panics(p, DisconnectCall(cmd[p].device_id, FALSE))

\* toggle_connected_status, first statement:
\* let device = self.get_device_info(address)?;
ToggleRead(p) ==
    /\ pc[p] = "toggle"
    /\ \E launched \in BOOLEAN :
          IF launched
          THEN LET device == get_device_info(devices, cmd[p].device_id)
               IN /\ trace' = [trace EXCEPT ![p] = Append(@, ListCall(TRUE, devices))]
                  /\ IF device.ok
                     THEN /\ read' = [read EXCEPT ![p] = device.value]
                          /\ pc' = [pc EXCEPT ![p] = "toggle_act"]
                          /\ UNCHANGED outcome
                     ELSE /\ outcome' = [outcome EXCEPT ![p] = ErrPrinted(device.error)]
                          /\ pc' = [pc EXCEPT ![p] = "exit"]
                          /\ UNCHANGED read
                  /\ UNCHANGED <<stdout, listed, devices, call, cmd>>
          ELSE Panics(p, ListCall(FALSE, <<>>))

\* a faulty variant of ActsOnConnected: the state is looked up again when acting
RecheckedConnected(p) ==
    LET now == get_device_info(devices, cmd[p].device_id)
    IN IF now.ok THEN now.value.connected ELSE FALSE

\* a faulty variant of ActsOnConnected: the branches are swapped
ActsOnDisconnected(p) == ~read[p].connected

\* `if device.connected`: the record read by get_device_info decides, and
\* nothing is read again
ActsOnConnected(p) == read[p].connected

\* toggle_connected_status, the if on device.connected
ToggleAct(p) ==
    /\ pc[p] = "toggle_act"
    /\ \E launched \in BOOLEAN :
          IF ~launched
          THEN Panics(p, IF ActsOnConnected(p)
                         THEN DisconnectCall(cmd[p].device_id, FALSE)
                         ELSE ConnectCall(cmd[p].device_id, FALSE))
          ELSE /\ IF ActsOnConnected(p)
                  THEN /\ devices' = SetConnected(devices, cmd[p].device_id, FALSE)
                       /\ trace' = [trace EXCEPT ![p] =
                                       Append(@, DisconnectCall(cmd[p].device_id, TRUE))]
                       /\ outcome' = [outcome EXCEPT ![p] = Printed("disconnected", Ok(FALSE))]
                  ELSE /\ devices' = SetConnected(devices, cmd[p].device_id, TRUE)
                       /\ trace' = [trace EXCEPT ![p] =
                                       Append(@, ConnectCall(cmd[p].device_id, TRUE))]
                       /\ outcome' = [outcome EXCEPT ![p] = Printed("connected", Ok(TRUE))]
               /\ pc' = [pc EXCEPT ![p] = "exit"]
               /\ UNCHANGED <<stdout, listed, call, cmd, read>>

Next ==
    \E p \in Procs :
        \/ ParseArgs(p)
        \/ ConnectCmd(p)
        \/ DisconnectCmd(p)
        \/ ToggleRead(p)
        \/ ToggleAct(p)

Spec == Init /\ [][Next]_vars

-----------------------------------------------------------------------------
(* Properties of connect, disconnect and toggle *)

CallsOf(p, op) == {i \in DOMAIN trace[p] : trace[p][i].op = op}

AllLaunched(p) == \A i \in DOMAIN trace[p] : trace[p][i].launched

\* the records of the list that toggle read whose address is exactly a
ListedAs(p, a) ==
    {i \in DOMAIN trace[p][1].yielded : trace[p][1].yielded[i].address = a}

\* C1: toggle of an address present in the listed devices calls disconnect
\* once, connect never, and returns false when the listed record is connected;
\* it calls connect once, disconnect never, and returns true when the listed
\* record is disconnected.
C1_ToggleActsOnListedState ==
    \A p \in Procs :
        (cmd[p].kind = "toggle" /\ pc[p] = "exit" /\ AllLaunched(p))
        => \A i \in ListedAs(p, cmd[p].device_id) :
              LET listedRecord == trace[p][1].yielded[i]
              IN IF listedRecord.connected
                 THEN /\ Cardinality(CallsOf(p, "disconnect")) = 1
                      /\ Cardinality(CallsOf(p, "connect")) = 0
                      /\ outcome[p].returned = Ok(FALSE)
                 ELSE /\ Cardinality(CallsOf(p, "connect")) = 1
                      /\ Cardinality(CallsOf(p, "disconnect")) = 0
                      /\ outcome[p].returned = Ok(TRUE)

LaunchFailed(p) == \E i \in DOMAIN trace[p] : ~trace[p][i].launched

\* C9: connect and disconnect end with an error result, written to the error
\* stream, when the external process cannot be launched, and the process does
\* not crash; they return success when it is launched.
C9_LaunchFailureIsAnError ==
    \A p \in Procs :
        (cmd[p].kind \in {"connect", "disconnect"} /\ pc[p] \in {"exit", "panicked"})
        => IF LaunchFailed(p)
           THEN pc[p] = "exit" /\ outcome[p].stream = "stderr"
           ELSE pc[p] = "exit" /\ outcome[p].returned = Ok(<<>>)

-----------------------------------------------------------------------------
(* Properties of toggle: the race, the unknown address, the call sequence *)

\* p ran toggle to the end and it returned Ok
ToggleSucceeded(p) ==
    cmd[p].kind = "toggle" /\ pc[p] = "exit" /\ outcome[p].stream = "stdout"

\* the connection state of the device with address a in the list p's toggle read
ListedState(p, a) ==
    LET l == trace[p][1].yielded
    IN l[CHOOSE i \in DOMAIN l : SameAddress(l[i].address, a)].connected

\* the connection state of the device with address a now
RealState(a) ==
    devices[CHOOSE i \in DOMAIN devices : SameAddress(devices[i].address, a)].connected

\* q made a connect or disconnect call that was launched
Acted(q) ==
    \E i \in DOMAIN trace[q] :
        trace[q][i].op \in {"connect", "disconnect"} /\ trace[q][i].launched

\* two toggles of one device that both read the same state, with no other
\* run acting
SameRead(p, q) ==
    /\ p # q
    /\ ToggleSucceeded(p)
    /\ ToggleSucceeded(q)
    /\ SameAddress(cmd[p].device_id, cmd[q].device_id)
    /\ ListedState(p, cmd[p].device_id) = ListedState(q, cmd[q].device_id)
    /\ \A r \in Procs \ {p, q} : ~Acted(r)

\* C11: toggle reads and then acts without a lock and without reading again:
\* when two toggles of one device both read the same connection state, both
\* issue the same action, both return the same value, and the device ends
\* flipped once (the opposite of the state read), not twice.
C11_RacingTogglesFlipOnce ==
    \A p, q \in Procs :
        SameRead(p, q)
        => /\ trace[p][2].op = trace[q][2].op
           /\ outcome[p].returned = outcome[q].returned
           /\ RealState(cmd[p].device_id) = ~ListedState(p, cmd[p].device_id)

\* both runs read the device as connected, both called disconnect and no
\* connect, both returned false, and the device is disconnected
C11_Witness ==
    /\ SameRead(1, 2)
    /\ ListedState(1, cmd[1].device_id)
    /\ trace[1][2].op = "disconnect"
    /\ trace[2][2].op = "disconnect"
    /\ CallsOf(1, "connect") = {} /\ CallsOf(2, "connect") = {}
    /\ outcome[1].returned = Ok(FALSE)
    /\ outcome[2].returned = Ok(FALSE)
    /\ ~RealState(cmd[1].device_id)

\* p's toggle has listed the devices and none has the requested address
ToggleOfUnknown(p) ==
    /\ cmd[p].kind = "toggle"
    /\ Len(trace[p]) > 0
    /\ trace[p][1].launched
    /\ \A i \in DOMAIN trace[p][1].yielded :
          ~SameAddress(trace[p][1].yielded[i].address, cmd[p].device_id)

\* C12: toggle of an address that matches no listed record returns the
\* not-found error carrying that address and calls neither connect nor
\* disconnect; the step leaves every device's connection state as it was.
C12_UnknownAddressIsNotFound ==
    [][\A p \in Procs :
          (pc[p] = "toggle" /\ pc'[p] # "toggle" /\ ToggleOfUnknown(p)')
          => /\ pc'[p] = "exit"
             /\ outcome'[p] = ErrPrinted(NotFoundError(cmd[p].device_id))
             /\ Len(trace'[p]) = 1
             /\ devices' = devices]_vars

\* a toggle of an address no paired device has ended with the error, with
\* devices paired and only the list call made
C12_Witness ==
    \E p \in Procs :
        /\ ToggleOfUnknown(p)
        /\ pc[p] = "exit"
        /\ Len(devices) > 0
        /\ outcome[p].stream = "stderr"
        /\ outcome[p].text.address = cmd[p].device_id
        /\ CallsOf(p, "connect") \cup CallsOf(p, "disconnect") = {}

\* C13: a successful toggle made exactly two calls, both launched once: the
\* list call, then one connect or disconnect for the requested address,
\* disconnect exactly when the list call showed the device connected; and no
\* toggle, successful or not, makes more than these two calls.
C13_OneListThenOneAction ==
    \A p \in Procs :
        /\ cmd[p].kind = "toggle" => Len(trace[p]) <= 2
        /\ ToggleSucceeded(p)
           => /\ Len(trace[p]) = 2
              /\ trace[p][1].op = "list"
              /\ trace[p][2].op \in {"connect", "disconnect"}
              /\ trace[p][2].address = cmd[p].device_id
              /\ (trace[p][2].op = "disconnect") = ListedState(p, cmd[p].device_id)
              /\ outcome[p].returned = Ok(trace[p][2].op = "connect")

\* a toggle succeeded after another run changed the device between its list
\* call and its action: it still acted on what it had read
C13_Witness ==
    \E p \in Procs :
        /\ ToggleSucceeded(p)
        /\ trace[p][2].op = "connect"
        /\ ~ListedState(p, cmd[p].device_id)
        /\ \E q \in Procs \ {p} : cmd[q].kind = "connect" /\ Acted(q)

====
